---- MODULE Spec2Model ----
(***************************************************************************)
(* elgato-keylight: the mDNS discovery subsystem and the light control.    *)
(*                                                                         *)
(*   src/src/avahi_browse.rs   the decoder of avahi-browse --parsable      *)
(*                             lines (MdnsPacket::try_from)                *)
(*   src/src/mdns/avahi.rs     Device, AvahiState::process_packet, the     *)
(*                             daemon thread, the one-shot discovery       *)
(*   src/src/bin/gui.rs        the consumer of the shared AvahiState       *)
(*   src/src/unsigned_int.rs   the range-checked Brightness, Temperature   *)
(*   src/src/keylight.rs       DeviceStatus::set                           *)
(*   src/src/bin/cli.rs        the commands of the command-line controller *)
(*                                                                         *)
(* Text the code inspects character by character (the mode field, the      *)
(* hostname, the address, the port) is a sequence of code points; text the *)
(* code only stores or compares as a whole is a TLA+ string.  A line is    *)
(* the sequence of the fields `s.split(';')` yields, so it is never the    *)
(* empty sequence.                                                         *)
(***************************************************************************)
EXTENDS Integers, Sequences, FiniteSets, Bags

VARIABLES
    devices,    \* AvahiState.devices behind the Arc<RwLock<..>>
    dpc,        \* position of the daemon thread
    cur,        \* the line the daemon thread has read (loop variable `line`)
    pkt,        \* the decoded packet of that line (`packet`)
    nread,      \* number of lines the subprocess has delivered so far
    writer,     \* RwLock: a write guard is alive
    readers,    \* RwLock: number of read guards alive
    cpc,        \* position of the consumer (MyApp::update)
    local,      \* MyApp.devices
    stable,     \* history: the registry at the last transition boundary
    okIdx,      \* history: indices of the lines that decoded to a packet
    applied,    \* history: indices of the lines whose packet was applied
    lastRes,    \* history: result of the last process_packet call
    held,       \* history: every value the registry has had
    seen,       \* history: how many lines were applied at the last copy
    seed,       \* main's `app.devices`, which every window starts from
    dline,      \* decoder run: the input line
    dres,       \* decoder run: the value try_from produced
    oin,        \* one-shot discovery: what the system and the tool give it
    ores,       \* one-shot discovery: what find_elgato_devices returned
    kdev,       \* light control: the status the device holds
    klast,      \* light control: the last command and what came of it
    kflight,    \* light control: the operations in flight, each at one of its awaits
    kstarted,   \* light control: how many operations were begun
    overflow_checks, \* light control: the build traps integer overflow
    base_put    \* light control: the device takes a PUT at any path

vars == <<devices, dpc, cur, pkt, nread, writer, readers, cpc, local, stable,
          okIdx, applied, lastRes, held, seen, seed, dline, dres, oin, ores,
          kdev, klast, kflight, kstarted, overflow_checks, base_put>>

daemonVars == <<devices, dpc, cur, pkt, nread, writer, readers, cpc, local,
                stable, okIdx, applied, lastRes, held, seen, seed>>

decodeVars == <<dline, dres>>

oneShotVars == <<oin, ores>>

\* what the daemon and the consumer leave alone
controlVars == <<kdev, klast, kflight, kstarted, overflow_checks, base_put>>

nonDaemonVars == <<decodeVars, oneShotVars, controlVars>>

-----------------------------------------------------------------------------
(* Bounds *)

MaxLines == 3
MaxSnapshot == 2
MaxLights == 2      \* lights of a device status, and its number_of_lights
MaxIndex == 2       \* largest index DeviceStatus::set is called with
MaxCommands == 2    \* operations on the device that are begun
MaxInFlight == 2    \* operations in flight, between their first request and their return, at a time

-----------------------------------------------------------------------------
(* Code points *)

Backslash == 92
Dot == 46
Colon == 58
Plus == 43
Minus == 45
Equals == 61
Digit0 == 48
Digit9 == 57

\* char::is_ascii_digit, what the integer parsers of std take as a digit
IsAsciiDigit(c) == c >= Digit0 /\ c <= Digit9

\* The ranges of the code points of general category Nd (decimal digit),
\* first and last of each: the regex crate is Unicode-aware by default.
DecimalDigitRanges ==
    {<<48, 57>>, <<1632, 1641>>, <<1776, 1785>>, <<1984, 1993>>,
     <<2406, 2415>>, <<2534, 2543>>, <<2662, 2671>>, <<2790, 2799>>,
     <<2918, 2927>>, <<3046, 3055>>, <<3174, 3183>>, <<3302, 3311>>,
     <<3430, 3439>>, <<3558, 3567>>, <<3664, 3673>>, <<3792, 3801>>,
     <<3872, 3881>>, <<4160, 4169>>, <<4240, 4249>>, <<6112, 6121>>,
     <<6160, 6169>>, <<6470, 6479>>, <<6608, 6617>>, <<6784, 6793>>,
     <<6800, 6809>>, <<6992, 7001>>, <<7088, 7097>>, <<7232, 7241>>,
     <<7248, 7257>>, <<42528, 42537>>, <<43216, 43225>>, <<43264, 43273>>,
     <<43472, 43481>>, <<43504, 43513>>, <<43600, 43609>>,
     <<44016, 44025>>, <<65296, 65305>>, <<66720, 66729>>,
     <<68912, 68921>>, <<68928, 68937>>, <<69734, 69743>>,
     <<69872, 69881>>, <<69942, 69951>>, <<70096, 70105>>,
     <<70384, 70393>>, <<70736, 70745>>, <<70864, 70873>>,
     <<71248, 71257>>, <<71360, 71369>>, <<71376, 71395>>,
     <<71472, 71481>>, <<71904, 71913>>, <<72016, 72025>>,
     <<72688, 72697>>, <<72784, 72793>>, <<73040, 73049>>,
     <<73120, 73129>>, <<73552, 73561>>, <<92768, 92777>>,
     <<90416, 90425>>, <<92864, 92873>>, <<93008, 93017>>, <<93552, 93561>>,
     <<118000, 118009>>, <<120782, 120831>>, <<123200, 123209>>,
     <<123632, 123641>>, <<124144, 124153>>, <<124401, 124410>>,
     <<125264, 125273>>, <<130032, 130041>>}

\* the class \d of the regex crate: any decimal digit, ASCII or not
IsDigit(c) == \E r \in DecimalDigitRanges : c >= r[1] /\ c <= r[2]

\* Option<T>
None == [some |-> FALSE]
Some(v) == [some |-> TRUE, v |-> v]

\* the value () of a call that returns nothing
Unit == [unit |-> TRUE]

-----------------------------------------------------------------------------
(* avahi_browse.rs: the decoder *)

Ok(v) == [kind |-> "Ok", val |-> v]
Err(e) == [kind |-> "Err", err |-> e]
Panic == [kind |-> "Panic"]

\* impl TryFrom<char> for PacketMode
PacketModeTryFrom_SwapsNewExited(c) ==
    IF c = Plus THEN Ok("Exited")
    ELSE IF c = Equals THEN Ok("Resolved")
    ELSE IF c = Minus THEN Ok("New")
    ELSE Err("ModeParse")

PacketModeTryFrom(c) ==
    IF c = Plus THEN Ok("New")
    ELSE IF c = Equals THEN Ok("Resolved")
    ELSE IF c = Minus THEN Ok("Exited")
    ELSE Err("ModeParse")

\* impl TryFrom<String> for IpType
IpTypeTryFrom(s) ==
    IF s = "IPv4" THEN Ok("V4")
    ELSE IF s = "IPv6" THEN Ok("V6")
    ELSE Err("IpTypeParse")

\* `.replace("\\.", ".")`: every non-overlapping occurrence, left to right,
\* in one pass (the output is not scanned again).
RECURSIVE ReplaceEscapedDot(_)
ReplaceEscapedDot(s) ==
    IF Len(s) = 0 THEN <<>>
    ELSE IF Len(s) >= 2 /\ s[1] = Backslash /\ s[2] = Dot
         THEN <<Dot>> \o ReplaceEscapedDot(SubSeq(s, 3, Len(s)))
         ELSE <<s[1]>> \o ReplaceEscapedDot(Tail(s))

\* Number of decimal digits (at most 3, greedy) at the head of s: the group
\* (\d{1,3}).
DigitRun(s) ==
    IF Len(s) >= 1 /\ IsDigit(s[1])
    THEN IF Len(s) >= 2 /\ IsDigit(s[2])
         THEN IF Len(s) >= 3 /\ IsDigit(s[3]) THEN 3 ELSE 2
         ELSE 1
    ELSE 0

RECURSIVE DecimalValue(_)
DecimalValue(ds) ==
    IF Len(ds) = 0 THEN 0
    ELSE 10 * DecimalValue(SubSeq(ds, 1, Len(ds) - 1)) + (ds[Len(ds)] - Digit0)

U8Max == 255

\* caps[1].parse::<u8>(): u8::from_str takes ASCII digits only, so a group
\* that holds another decimal digit is no number
ParseU8(ds) ==
    IF \E i \in 1..Len(ds) : ~IsAsciiDigit(ds[i]) THEN Err("IntParse")
    ELSE IF DecimalValue(ds) > U8Max THEN Err("IntParse")
    ELSE Ok(DecimalValue(ds))

\* fn parse_escaped_ascii: replace_all of \\(\d{1,3}) by the character whose
\* code is the number; the closure panics when the number is no u8.
RECURSIVE ParseEscapedAscii(_)
ParseEscapedAscii(s) ==
    IF Len(s) = 0 THEN Ok(<<>>)
    ELSE IF s[1] = Backslash /\ DigitRun(Tail(s)) > 0
         THEN LET n == DigitRun(Tail(s))
                  code == ParseU8(SubSeq(s, 2, n + 1))
                  rest == ParseEscapedAscii(SubSeq(s, n + 2, Len(s)))
              IN  IF code.kind = "Err" THEN Panic
                  ELSE IF rest.kind = "Panic" THEN Panic
                  ELSE Ok(<<code.val>> \o rest.val)
         ELSE LET rest == ParseEscapedAscii(Tail(s))
              IN  IF rest.kind = "Panic" THEN Panic
                  ELSE Ok(<<s[1]>> \o rest.val)

U16Max == 65535

\* u16::from_str: an optional '+', then one or more ASCII digits, value <= 65535.
ParseU16(s) ==
    LET ds == IF Len(s) >= 1 /\ s[1] = Plus THEN Tail(s) ELSE s
    IN  IF Len(s) = 0 THEN Err("IntParse")
        ELSE IF Len(ds) = 0 THEN Err("IntParse")
        ELSE IF \E i \in 1..Len(ds) : ~IsAsciiDigit(ds[i]) THEN Err("IntParse")
        ELSE IF DecimalValue(ds) > U16Max THEN Err("IntParse")
        ELSE Ok(DecimalValue(ds))

\* IpAddr::from_str is the parser of std::net.  A read gives the value and
\* the text left, or fails and takes nothing.
Fail == [ok |-> FALSE]
Read(v, rest) == [ok |-> TRUE, val |-> v, rest |-> rest]

\* char::to_digit(radix), -1 for None
ToDigit(c, radix) ==
    IF IsAsciiDigit(c) THEN (IF c - Digit0 < radix THEN c - Digit0 ELSE -1)
    ELSE IF radix = 16 /\ c >= 97 /\ c <= 102 THEN c - 87
    ELSE IF radix = 16 /\ c >= 65 /\ c <= 70 THEN c - 55
    ELSE -1

\* how many characters at the head of s are digits of the radix
RECURSIVE LeadingDigits(_, _)
LeadingDigits(s, radix) ==
    IF Len(s) >= 1 /\ ToDigit(s[1], radix) >= 0
    THEN 1 + LeadingDigits(Tail(s), radix)
    ELSE 0

RECURSIVE NumberValue(_, _)
NumberValue(ds, radix) ==
    IF Len(ds) = 0 THEN 0
    ELSE radix * NumberValue(SubSeq(ds, 1, Len(ds) - 1), radix)
            + ToDigit(ds[Len(ds)], radix)

\* Parser::read_number, once the n digits at the head of s are counted:
\* more of them than max_digits, none at all, or a zero before another
\* digit where that is not allowed, and the read fails.
NumberOfDigits(s, n, radix, max_digits, allow_zero_prefix) ==
    IF n = 0 \/ n > max_digits THEN Fail
    ELSE IF ~allow_zero_prefix /\ s[1] = Digit0 /\ n > 1 THEN Fail
    ELSE Read(NumberValue(SubSeq(s, 1, n), radix), SubSeq(s, n + 1, Len(s)))

\* checked_mul and checked_add of read_number: a value the integer type
\* cannot hold, and the read fails.
WithinMax(read, max) == IF read.ok /\ read.val > max THEN Fail ELSE read

\* Parser::read_number
ReadNumber(s, radix, max_digits, allow_zero_prefix, max) ==
    WithinMax(NumberOfDigits(s, LeadingDigits(s, radix), radix, max_digits,
                           allow_zero_prefix),
            max)

\* Parser::read_separator: before every item but the first, the separator
ReadSeparator(s, sep, index) ==
    IF index = 0 THEN Read(Unit, s)
    ELSE IF Len(s) >= 1 /\ s[1] = sep THEN Read(Unit, Tail(s))
    ELSE Fail

\* `*slot = p.read_separator('.', i, |p| p.read_number(10, Some(3), false))?`
\* after the separator
ReadOctet(sep) ==
    IF sep.ok THEN ReadNumber(sep.rest, 10, 3, FALSE, U8Max) ELSE Fail

\* Parser::read_ipv4_addr: four decimal numbers of at most three digits
RECURSIVE ReadIpv4Groups(_, _, _)
RECURSIVE Ipv4GroupsAfter(_, _, _)
ReadIpv4Groups(s, i, groups) ==
    IF i = 4 THEN Read(groups, s)
    ELSE Ipv4GroupsAfter(ReadOctet(ReadSeparator(s, Dot, i)), i, groups)

\* the `?` on the slot just read, and the rest of the loop
Ipv4GroupsAfter(slot, i, groups) ==
    IF ~slot.ok THEN Fail
    ELSE ReadIpv4Groups(slot.rest, i + 1, Append(groups, slot.val))

ReadIpv4Addr(s) == ReadIpv4Groups(s, 0, <<>>)

\* what read_groups returns: the groups read, whether the last two were
\* written as a V4 address, and the text left
Groups(groups, ipv4, rest) == [groups |-> groups, ipv4 |-> ipv4, rest |-> rest]

\* read_groups of Parser::read_ipv6_addr: up to limit groups of at most
\* four hex digits, the last two of which may be written as a V4 address
RECURSIVE ReadGroups(_, _, _, _)
RECURSIVE GroupsAfterSeparator(_, _, _, _, _)
RECURSIVE GroupsAfterIpv4(_, _, _, _, _, _)
RECURSIVE GroupsAfterGroup(_, _, _, _, _)
ReadGroups(s, i, limit, groups) ==
    IF i = limit THEN Groups(groups, FALSE, s)
    ELSE GroupsAfterSeparator(s, ReadSeparator(s, Colon, i), i, limit, groups)

\* read_groups after the separator of group i: with two groups left at
\* least, a V4 address is tried first
GroupsAfterSeparator(s, sep, i, limit, groups) ==
    IF ~sep.ok THEN Groups(groups, FALSE, s)
    ELSE GroupsAfterIpv4(s, sep.rest,
                         IF i < limit - 1 THEN ReadIpv4Addr(sep.rest) ELSE Fail,
                         i, limit, groups)

\* read_groups after the try of a V4 address: the address ends the groups,
\* else a group of hex digits is read from the text t after the separator
GroupsAfterIpv4(s, t, ipv4, i, limit, groups) ==
    IF ipv4.ok
    THEN Groups(groups \o <<ipv4.val[1] * 256 + ipv4.val[2],
                            ipv4.val[3] * 256 + ipv4.val[4]>>,
                TRUE, ipv4.rest)
    ELSE GroupsAfterGroup(s, ReadNumber(t, 16, 4, TRUE, U16Max), i, limit,
                          groups)

\* read_groups after the read of group i: `Some(g) => *slot = g`,
\* `None => return (i, false)`
GroupsAfterGroup(s, group, i, limit, groups) ==
    IF group.ok
    THEN ReadGroups(group.rest, i + 1, limit, Append(groups, group.val))
    ELSE Groups(groups, FALSE, s)

Ipv6Groups == 8

\* Parser::read_ipv6_addr after the tail is read: the groups of zeros that
\* `::` stands for come between head and tail
Ipv6AfterTail(head_groups, tail) ==
    Read(head_groups
            \o [k \in 1..(Ipv6Groups - Len(head_groups) - Len(tail.groups)) |-> 0]
            \o tail.groups,
         tail.rest)

\* Parser::read_ipv6_addr after the head is read: eight groups, or fewer
\* before one `::`, which stands for one group of zeros at least
Ipv6AfterHead(head) ==
    IF Len(head.groups) = Ipv6Groups THEN Read(head.groups, head.rest)
    ELSE IF head.ipv4 THEN Fail
    ELSE IF ~(/\ Len(head.rest) >= 2
              /\ head.rest[1] = Colon
              /\ head.rest[2] = Colon) THEN Fail
    ELSE Ipv6AfterTail(head.groups,
                       ReadGroups(SubSeq(head.rest, 3, Len(head.rest)), 0,
                                  Ipv6Groups - (Len(head.groups) + 1), <<>>))

\* Parser::read_ipv6_addr
ReadIpv6Addr(s) == Ipv6AfterHead(ReadGroups(s, 0, Ipv6Groups, <<>>))

\* `.map(IpAddr::V4)`, `.map(IpAddr::V6)`: the value is the address itself,
\* its octets or its segments
Tagged(read, family) ==
    IF read.ok THEN Read([family |-> family, addr |-> read.val], read.rest)
    ELSE Fail

\* Option::or_else
OrElse(first, second) == IF first.ok THEN first ELSE second

\* Parser::read_ip_addr: a V4 address, else a V6 address
ReadIpAddr(s) ==
    OrElse(Tagged(ReadIpv4Addr(s), "V4"), Tagged(ReadIpv6Addr(s), "V6"))

\* Parser::parse_with: the result stands when nothing is left of the input
ParseWith(read) ==
    IF read.ok /\ read.rest = <<>> THEN Ok(read.val) ELSE Err("AddrParse")

\* IpAddr::from_str
IpAddrFromStr(s) == ParseWith(ReadIpAddr(s))

RECURSIVE DecimalText(_)
DecimalText(n) ==
    IF n < 10 THEN <<Digit0 + n>>
    ELSE DecimalText(n \div 10) \o <<Digit0 + (n % 10)>>

\* impl Display for Ipv4Addr: the octets in decimal, dots between them
Ipv4Display(octets) ==
    DecimalText(octets[1]) \o <<Dot>> \o DecimalText(octets[2]) \o <<Dot>>
        \o DecimalText(octets[3]) \o <<Dot>> \o DecimalText(octets[4])

\* fn try_unwrap_arg applied to the i-th item of the split iterator
HasArg_OffByOne(fields, i) == i < Len(fields)

HasArg(fields, i) == i <= Len(fields)

\* impl TryFrom<String> for MdnsPacket, from the Resolved arm on
ResolvedFrom(fields, base) ==
    IF ~HasArg(fields, 7) THEN Err("NotEnoughArgs")
    ELSE IF ~HasArg(fields, 8) THEN Err("NotEnoughArgs")
    ELSE LET ip == IpAddrFromStr(fields[8])
         IN  IF ip.kind = "Err" THEN ip
             ELSE IF ~HasArg(fields, 9) THEN Err("NotEnoughArgs")
             ELSE LET port == ParseU16(fields[9])
                  IN  IF port.kind = "Err" THEN port
                      ELSE Ok([mode |-> "Resolved",
                               base |-> base,
                               service |-> [name |-> base.service_type,
                                            hostname |-> fields[7],
                                            ip |-> ip.val,
                                            port |-> port.val,
                                            data |-> SubSeq(fields, 10, Len(fields))]])

\* impl TryFrom<String> for MdnsPacket, from the hostname field on
BaseFrom(fields, mode, family) ==
    IF ~HasArg(fields, 4) THEN Err("NotEnoughArgs")
    ELSE LET hostname == ParseEscapedAscii(ReplaceEscapedDot(fields[4]))
         IN  IF hostname.kind = "Panic" THEN Panic
             ELSE IF ~HasArg(fields, 5) THEN Err("NotEnoughArgs")
             ELSE IF ~HasArg(fields, 6) THEN Err("NotEnoughArgs")
             ELSE LET base == [interface_name |-> fields[2],
                               internet_protocol |-> family,
                               hostname |-> hostname.val,
                               service_type |-> fields[5],
                               domain |-> fields[6]]
                  IN  IF mode = "Resolved" THEN ResolvedFrom(fields, base)
                      ELSE Ok([mode |-> mode, base |-> base])

\* impl TryFrom<String> for MdnsPacket
MdnsPacketTryFrom(fields) ==
    IF Len(fields[1]) = 0 THEN Err("NotEnoughArgs")
    ELSE LET mode == PacketModeTryFrom(fields[1][1])
         IN  IF mode.kind = "Err" THEN mode
             ELSE IF ~HasArg(fields, 2) THEN Err("NotEnoughArgs")
             ELSE IF ~HasArg(fields, 3) THEN Err("NotEnoughArgs")
             ELSE LET family == IpTypeTryFrom(fields[3])
                  IN  IF family.kind = "Err" THEN family
                      ELSE BaseFrom(fields, mode.val, family.val)

-----------------------------------------------------------------------------
(* mdns/avahi.rs: Device and the registry *)

HttpDefaultPort == 80

\* Url::parse(&format!("http://{}:{}", service.ip, service.port)).  A V6
\* address is written without brackets and with two colons at least, so
\* what follows the first ':' is no port and the parse fails; the host of a
\* V4 address is the address as written by Display, and the default port of
\* the scheme is dropped.
UrlParse(ip, port) ==
    IF ip.family = "V6" THEN Err("UrlParse")
    ELSE Ok([host |-> Ipv4Display(ip.addr),
             port |-> IF port = HttpDefaultPort THEN None ELSE Some(port)])

\* Device::from_packet
DeviceFromPacket(packet) ==
    IF packet.mode = "Resolved"
    THEN LET url == UrlParse(packet.service.ip, packet.service.port)
         IN  IF url.kind = "Err" THEN url
             ELSE Ok(Some([name |-> packet.base.hostname, url |-> url.val]))
    ELSE Ok(None)

\* impl PartialEq for Device: equality is by name alone
DeviceEq_ByAllFields(a, b) == a = b

DeviceEq(a, b) == a.name = b.name

\* self.devices.iter().any(|device| device == &new_device)
Contains(devs, d) == \E i \in 1..Len(devs) : DeviceEq(devs[i], d)

\* self.devices.iter().position(|device| device.name != base.hostname):
\* the index of the first device the predicate holds of, 0 for None
ExitedPosition(devs, hostname) ==
    LET hits == {i \in 1..Len(devs) : devs[i].name # hostname}
    IN  IF hits = {} THEN 0 ELSE CHOOSE i \in hits : \A j \in hits : i <= j

\* Vec::remove(idx)
RemoveAt(devs, idx) ==
    SubSeq(devs, 1, idx - 1) \o SubSeq(devs, idx + 1, Len(devs))

\* self.devices.push(new_device)
PushDevice_AtFront(devs, d) == <<d>> \o devs

PushDevice(devs, d) == Append(devs, d)

\* AvahiState::process_packet: the device list afterwards and the value returned
\* as if the Exited arm unwrapped the position it looked for
ProcessPacket_ExitedUnwraps(devs, packet) ==
    IF packet.mode = "New" THEN [devices |-> devs, result |-> Ok(Unit)]
    ELSE IF packet.mode = "Resolved"
    THEN LET d == DeviceFromPacket(packet)
         IN  IF d.kind = "Err" THEN [devices |-> devs, result |-> d]
             ELSE IF ~Contains(devs, d.val.v)
                  THEN [devices |-> PushDevice(devs, d.val.v), result |-> Ok(Unit)]
                  ELSE [devices |-> devs, result |-> Ok(Unit)]
    ELSE LET idx == ExitedPosition(devs, packet.base.hostname)
         IN  IF idx # 0
             THEN [devices |-> RemoveAt(devs, idx), result |-> Ok(Unit)]
             ELSE [devices |-> devs, result |-> Panic]

ProcessPacket_NewAsExited(devs, packet) ==
    IF packet.mode = "Resolved"
    THEN LET d == DeviceFromPacket(packet)
         IN  IF d.kind = "Err" THEN [devices |-> devs, result |-> d]
             ELSE IF ~Contains(devs, d.val.v)
                  THEN [devices |-> PushDevice(devs, d.val.v), result |-> Ok(Unit)]
                  ELSE [devices |-> devs, result |-> Ok(Unit)]
    ELSE LET idx == ExitedPosition(devs, packet.base.hostname)
         IN  IF idx # 0
             THEN [devices |-> RemoveAt(devs, idx), result |-> Ok(Unit)]
             ELSE [devices |-> devs, result |-> Ok(Unit)]

ProcessPacket(devs, packet) ==
    IF packet.mode = "New" THEN [devices |-> devs, result |-> Ok(Unit)]
    ELSE IF packet.mode = "Resolved"
    THEN LET d == DeviceFromPacket(packet)
         IN  IF d.kind = "Err" THEN [devices |-> devs, result |-> d]
             ELSE IF ~Contains(devs, d.val.v)
                  THEN [devices |-> PushDevice(devs, d.val.v), result |-> Ok(Unit)]
                  ELSE [devices |-> devs, result |-> Ok(Unit)]
    ELSE LET idx == ExitedPosition(devs, packet.base.hostname)
         IN  IF idx # 0
             THEN [devices |-> RemoveAt(devs, idx), result |-> Ok(Unit)]
             ELSE [devices |-> devs, result |-> Ok(Unit)]

-----------------------------------------------------------------------------
(* mdns/avahi.rs: one-shot discovery *)

\* .collect::<Result<Vec<_>, _>>() over the decoded lines: the first error
\* ends it; a panic of the decoder unwinds through it.
RECURSIVE CollectPackets(_)
CollectPackets(lines) ==
    IF Len(lines) = 0 THEN Ok(<<>>)
    ELSE LET r == MdnsPacketTryFrom(Head(lines))
         IN  IF r.kind # "Ok" THEN r
             ELSE LET rest == CollectPackets(Tail(lines))
                  IN  IF rest.kind # "Ok" THEN rest
                      ELSE Ok(<<r.val>> \o rest.val)

\* exec_avahi_browse, with the tool present and its output read
ExecAvahiBrowse(lines) == CollectPackets(lines)

\* .filter_map(|packet| Device::from_packet(packet).unwrap_or_else(|err| None))
RECURSIVE FilterMapDevices(_)
FilterMapDevices(packets) ==
    IF Len(packets) = 0 THEN <<>>
    ELSE LET d == DeviceFromPacket(Head(packets))
         IN  IF d.kind = "Err" \/ ~d.val.some
             THEN FilterMapDevices(Tail(packets))
             ELSE <<d.val.v>> \o FilterMapDevices(Tail(packets))

\* Itertools::unique(): the first of each class of equal devices, in order
RECURSIVE Unique_KeepsLast(_)
Unique_KeepsLast(devs) ==
    IF Len(devs) = 0 THEN <<>>
    ELSE LET rest == Unique_KeepsLast(Tail(devs))
         IN  IF Contains(rest, Head(devs)) THEN rest
             ELSE <<Head(devs)>> \o rest

RECURSIVE Unique(_)
Unique(devs) ==
    IF Len(devs) = 0 THEN <<>>
    ELSE LET init == Unique(SubSeq(devs, 1, Len(devs) - 1))
             last == devs[Len(devs)]
         IN  IF Contains(init, last) THEN init ELSE Append(init, last)

\* find_elgato_devices
FindElgatoDevices(lines) ==
    LET packets == ExecAvahiBrowse(lines)
    IN  IF packets.kind # "Ok" THEN packets
        ELSE Ok(Unique(FilterMapDevices(packets.val)))

\* a DiscoverError: the variant and what it wraps
DiscoverError(variant, cause) == [variant |-> variant, cause |-> cause]

\* What running `which avahi-browse` can come to.
WhichOutcomes ==
    {"absent",          \* `which` itself cannot be started: NotFound
     "io_error",        \* starting `which` fails for another reason
     "bad_utf8",        \* it ran and wrote bytes that are not UTF-8
     "prints_path",     \* it ran and wrote the path of the tool
     "prints_nothing"}  \* it ran, found nothing and wrote nothing

AvahiBrowsePath == "/usr/bin/avahi-browse"

\* find_executable: the output of `which`, as a path, whenever it ran
FindExecutable(which) ==
    CASE which = "absent" -> Ok(None)
      [] which = "io_error" -> Err("IO")
      [] which = "bad_utf8" -> Err("OutputParse")
      [] which = "prints_path" -> Ok(Some(AvahiBrowsePath))
      [] which = "prints_nothing" -> Ok(Some(""))

\* exec_avahi_browse in an environment env:
\*   env.which  what `which avahi-browse` comes to
\*   env.tool   "runs" or "io_error": whether avahi-browse could be run
\*   env.utf8   whether what it wrote is UTF-8
\*   env.lines  the lines it wrote
ExecAvahiBrowseEnv(env) ==
    LET found == FindExecutable(env.which)
    IN  IF found.kind = "Err"
        THEN Err(DiscoverError("FindExec", found.err))
        ELSE IF ~found.val.some
        THEN Err(DiscoverError("AvahiBrowseNotInstalled", "none"))
        ELSE IF env.tool # "runs"
        THEN Err(DiscoverError("AvahiBrowseError", "io"))
        ELSE IF ~env.utf8
        THEN Err(DiscoverError("OutputParse", "utf8"))
        ELSE LET packets == CollectPackets(env.lines)
             IN  IF packets.kind = "Err"
                 THEN Err(DiscoverError("Parse", packets.err))
                 ELSE packets

\* find_elgato_devices in an environment: a device whose URL cannot be built
\* is logged and left out
FindElgatoDevicesEnv_PropagatesUrlError(env) ==
    LET packets == ExecAvahiBrowseEnv(env)
    IN  IF packets.kind # "Ok" THEN packets
        ELSE IF \E i \in 1..Len(packets.val) :
                    DeviceFromPacket(packets.val[i]).kind = "Err"
        THEN Err(DiscoverError("Parse", "UrlParse"))
        ELSE Ok(Unique(FilterMapDevices(packets.val)))

FindElgatoDevicesEnv(env) ==
    LET packets == ExecAvahiBrowseEnv(env)
    IN  IF packets.kind # "Ok" THEN packets
        ELSE Ok(Unique(FilterMapDevices(packets.val)))

-----------------------------------------------------------------------------
(* Inputs: lines of `avahi-browse --parsable --resolve` *)

HostA == <<97>>                  \* a
HostAEscaped == <<92, 48, 57, 55>>   \* \097, which decodes to a
HostB == <<98>>                  \* b
HostC == <<99>>                  \* c
HostBadEscape == <<92, 50, 53, 54>>  \* \256

Addr192 == <<49, 57, 50, 46, 49, 54, 56, 46, 48, 46, 57, 50>>  \* 192.168.0.92
Addr10 == <<49, 48, 46, 48, 46, 48, 46, 55>>  \* 10.0.0.7
\* fe80::3e6a:9dff:fe21:b16
AddrFe80 ==
    <<102, 101, 56, 48, 58, 58, 51, 101, 54, 97, 58, 57, 100, 102, 102, 58,
      102, 101, 50, 49, 58, 98, 49, 54>>

Port9123 == <<57, 49, 50, 51>>
Port80 == <<56, 48>>

\* The first n fields of a line with two attribute fields.
Line(mode, family, hostname, ip, port, n) ==
    SubSeq(<<mode, "enp6s0", family, hostname, "_elg._tcp", "local",
             "elgato-key-light.local", ip, port, "mf=Elgato", "dt=53">>, 1, n)

LineNewA == Line(<<Plus>>, "IPv4", HostA, Addr192, Port9123, 6)
LineResolvedA == Line(<<Equals>>, "IPv4", HostA, Addr192, Port9123, 10)
LineResolvedA2 == Line(<<Equals>>, "IPv4", HostAEscaped, Addr10, Port80, 10)
LineResolvedB == Line(<<Equals>>, "IPv4", HostB, Addr10, Port9123, 10)
LineResolvedC6 ==
    Line(<<Equals>>, "IPv6", HostC, AddrFe80, Port9123, 10)
LineResolvedC4 == Line(<<Equals>>, "IPv4", HostC, Addr10, Port80, 10)
LineExitedA == Line(<<Minus>>, "IPv4", HostA, Addr192, Port9123, 6)
LineBadMode == Line(<<120>>, "IPv4", HostA, Addr192, Port9123, 6)
LineBadEscape == Line(<<Plus>>, "IPv4", HostBadEscape, Addr192, Port9123, 6)

\* What the subprocess may write while the daemon runs.
StreamLines ==
    {LineNewA, LineResolvedA, LineResolvedA2, LineResolvedB, LineResolvedC6,
     LineExitedA, LineBadMode, LineBadEscape}

\* What one `avahi-browse --terminate` run may write.
BrowseLines == StreamLines \cup {LineResolvedC4}

RECURSIVE SeqsUpTo(_, _)
SeqsUpTo(S, n) ==
    IF n = 0 THEN {<<>>}
    ELSE LET shorter == SeqsUpTo(S, n - 1)
         IN  shorter \cup {Append(q, x) : q \in shorter, x \in S}

NoLine == <<>>
NoPacket == [mode |-> "None"]
NoResult == [kind |-> "None"]

-----------------------------------------------------------------------------
(* bin/gui.rs main: the registry the daemon is given *)

\* get_available_devices(&runtime).unwrap_or_else(|err| vec![]): the
\* snapshot of a one-shot discovery, or empty when that failed.  (A panic of
\* the decoder there ends the program before there is a registry.)
Seeds ==
    {<<>>} \cup
    {r.val : r \in {x \in {FindElgatoDevices(ls) :
                              ls \in SeqsUpTo(StreamLines, MaxSnapshot)} :
                       x.kind = "Ok"}}

InitDaemon ==
    /\ devices \in Seeds
    /\ local = devices
    /\ stable = devices
    /\ dpc = "spawn"
    /\ cur = NoLine
    /\ pkt = NoPacket
    /\ nread = 0
    /\ writer = FALSE
    /\ readers = 0
    /\ cpc = "idle"
    /\ okIdx = <<>>
    /\ applied = <<>>
    /\ lastRes = NoResult
    /\ held = {devices}
    /\ seen = 0
    /\ seed = devices

-----------------------------------------------------------------------------
(* mdns/avahi.rs spawn_avahi_daemon: the daemon thread *)

\* Command::spawn() and child.stdout succeed
DaemonSpawn ==
    /\ dpc = "spawn"
    /\ dpc' = "read"
    /\ UNCHANGED <<devices, cur, pkt, nread, writer, readers, cpc, local,
                   stable, okIdx, applied, lastRes>>
    /\ UNCHANGED <<held, seen, seed>>
    /\ UNCHANGED nonDaemonVars

\* .expect("Failed to spawn ..") / .expect("Failed to get stdout ..")
DaemonSpawnFail ==
    /\ dpc = "spawn"
    /\ dpc' = "aborted_spawn"
    /\ UNCHANGED <<devices, cur, pkt, nread, writer, readers, cpc, local,
                   stable, okIdx, applied, lastRes>>
    /\ UNCHANGED <<held, seen, seed>>
    /\ UNCHANGED nonDaemonVars

\* `for line in stream`: the iterator yields Some(Ok(line))
DaemonReadLine ==
    /\ dpc = "read"
    /\ nread < MaxLines
    /\ \E l \in StreamLines : cur' = l
    /\ nread' = nread + 1
    /\ dpc' = "decode"
    /\ UNCHANGED <<devices, pkt, writer, readers, cpc, local, stable, okIdx,
                   applied, lastRes>>
    /\ UNCHANGED <<held, seen, seed>>
    /\ UNCHANGED nonDaemonVars

\* the iterator yields None: the subprocess closed its output
DaemonReadEof ==
    /\ dpc = "read"
    /\ dpc' = "done"
    /\ UNCHANGED <<devices, cur, pkt, nread, writer, readers, cpc, local,
                   stable, okIdx, applied, lastRes>>
    /\ UNCHANGED <<held, seen, seed>>
    /\ UNCHANGED nonDaemonVars

\* the iterator yields Some(Err(_)): line.expect("Failed to read line ..")
DaemonReadFail ==
    /\ dpc = "read"
    /\ dpc' = "aborted_read"
    /\ UNCHANGED <<devices, cur, pkt, nread, writer, readers, cpc, local,
                   stable, okIdx, applied, lastRes>>
    /\ UNCHANGED <<held, seen, seed>>
    /\ UNCHANGED nonDaemonVars

\* match MdnsPacket::try_from(line.to_string()): where the thread goes next
AfterDecode_ErrEndsLoop(r) ==
    IF r.kind = "Ok" THEN "lock"
    ELSE IF r.kind = "Err" THEN "done"
    ELSE "aborted_decode"

AfterDecode_OkSkipsApply(r) ==
    IF r.kind = "Ok" THEN "read"
    ELSE IF r.kind = "Err" THEN "read"
    ELSE "aborted_decode"

AfterDecode(r) ==
    IF r.kind = "Ok" THEN "lock"
    ELSE IF r.kind = "Err" THEN "read"
    ELSE "aborted_decode"

DaemonDecode ==
    /\ dpc = "decode"
    /\ LET r == MdnsPacketTryFrom(cur)
       IN  /\ dpc' = AfterDecode(r)
           /\ pkt' = IF r.kind = "Ok" THEN r.val ELSE NoPacket
           /\ okIdx' = IF r.kind = "Ok" THEN Append(okIdx, nread) ELSE okIdx
           /\ cur' = IF r.kind = "Ok" THEN cur ELSE NoLine
    /\ UNCHANGED <<devices, nread, writer, readers, cpc, local, stable,
                   applied, lastRes>>
    /\ UNCHANGED <<held, seen, seed>>
    /\ UNCHANGED nonDaemonVars

\* RwLock::write() returns once no guard is alive
WriteAcquirable == ~writer /\ readers = 0

\* let mut state = state.write().expect(..)
DaemonAcquireWrite ==
    /\ dpc = "lock"
    /\ WriteAcquirable
    /\ writer' = TRUE
    /\ dpc' = "apply"
    /\ UNCHANGED <<devices, cur, pkt, nread, readers, cpc, local, stable,
                   okIdx, applied, lastRes>>
    /\ UNCHANGED <<held, seen, seed>>
    /\ UNCHANGED nonDaemonVars

\* if let Err(err) = state.process_packet(packet) { log }
\* Were process_packet to panic, the thread would unwind out of the loop
\* with the write guard alive: dropping it then poisons the lock.
DaemonApply ==
    /\ dpc = "apply"
    /\ LET r == ProcessPacket(devices, pkt)
           panicked == r.result.kind = "Panic"
       IN  /\ devices' = r.devices
           /\ lastRes' = r.result
           /\ applied' = IF panicked THEN applied ELSE Append(applied, nread)
           /\ dpc' = IF panicked THEN "aborted_apply" ELSE "unlock"
           /\ writer' = IF panicked THEN FALSE ELSE writer
    /\ held' = held \cup {devices'}
    /\ UNCHANGED <<cur, pkt, nread, readers, cpc, local, stable, okIdx>>
    /\ UNCHANGED <<seen, seed>>
    /\ UNCHANGED nonDaemonVars

\* the write guard is dropped at the end of the Ok arm
DaemonRelease_KeepsGuard ==
    /\ dpc = "unlock"
    /\ stable' = devices
    /\ cur' = NoLine
    /\ pkt' = NoPacket
    /\ dpc' = "read"
    /\ UNCHANGED <<devices, nread, readers, cpc, local, okIdx, applied, lastRes>>
    /\ UNCHANGED writer
    /\ UNCHANGED <<held, seen, seed>>
    /\ UNCHANGED nonDaemonVars

DaemonRelease ==
    /\ dpc = "unlock"
    /\ writer' = FALSE
    /\ stable' = devices
    /\ cur' = NoLine
    /\ pkt' = NoPacket
    /\ dpc' = "read"
    /\ UNCHANGED <<devices, nread, readers, cpc, local, okIdx, applied, lastRes>>
    /\ UNCHANGED <<held, seen, seed>>
    /\ UNCHANGED nonDaemonVars

-----------------------------------------------------------------------------
(* bin/gui.rs MyApp::update: the consumer *)

\* RwLock::try_read() is Ok unless a write guard is alive
\* The lock is poisoned when the daemon thread panicked with the write
\* guard alive; try_read() is then Err(Poisoned) for ever.
Poisoned == dpc = "aborted_apply"

TryReadSucceeds_IgnoresWriter == TRUE

TryReadSucceeds == ~writer /\ ~Poisoned

\* if let Ok(rlock) = self.avahi.try_read()
ConsumerTryRead ==
    /\ cpc = "idle"
    /\ TryReadSucceeds
    /\ readers' = readers + 1
    /\ cpc' = "copy"
    /\ UNCHANGED <<devices, dpc, cur, pkt, nread, writer, local, stable,
                   okIdx, applied, lastRes>>
    /\ UNCHANGED <<held, seen, seed>>
    /\ UNCHANGED nonDaemonVars

\* try_read() is Err(WouldBlock): this update leaves self.devices alone
ConsumerTryReadFail_Blocks ==
    /\ cpc = "idle"
    /\ ~TryReadSucceeds
    /\ FALSE
    /\ UNCHANGED vars

ConsumerTryReadFail ==
    /\ cpc = "idle"
    /\ ~TryReadSucceeds
    /\ UNCHANGED daemonVars
    /\ UNCHANGED nonDaemonVars

\* self.devices = rlock.devices.clone(); the read guard is dropped
ConsumerCopy ==
    /\ cpc = "copy"
    /\ local' = devices
    /\ readers' = readers - 1
    /\ cpc' = "idle"
    /\ UNCHANGED <<devices, dpc, cur, pkt, nread, writer, stable, okIdx,
                   applied, lastRes>>
    /\ UNCHANGED <<held, seed>>
    /\ seen' = Len(applied)
    /\ UNCHANGED nonDaemonVars

\* main's loop, once the window was closed and is opened again:
\* `let app = app.clone(); eframe::run_native(.., Box::new(|_cc| Ok(Box::new(app))))`.
\* The MyApp of the new window is a copy of main's `app`, whose devices are
\* those the program started with, whatever the last window had copied.
WindowReopen ==
    /\ cpc = "idle"
    /\ local' = seed
    /\ seen' = 0
    /\ UNCHANGED <<devices, dpc, cur, pkt, nread, writer, readers, cpc, stable,
                   okIdx, applied, lastRes>>
    /\ UNCHANGED <<held, seed>>
    /\ UNCHANGED nonDaemonVars

-----------------------------------------------------------------------------
(* The daemon and a consumer sharing one registry *)

DecodeOff ==
    /\ dline = NoLine
    /\ dres = NoResult

OneShotOff ==
    /\ oin = NoResult
    /\ ores = NoResult

ControlOff ==
    /\ kdev = NoResult
    /\ klast = NoResult
    /\ kflight = EmptyBag
    /\ kstarted = 0
    /\ overflow_checks = FALSE
    /\ base_put = FALSE

Init ==
    /\ InitDaemon
    /\ DecodeOff
    /\ OneShotOff
    /\ ControlOff

Next ==
    \/ DaemonSpawn
    \/ DaemonSpawnFail
    \/ DaemonReadLine
    \/ DaemonReadEof
    \/ DaemonReadFail
    \/ DaemonDecode
    \/ DaemonAcquireWrite
    \/ DaemonApply
    \/ DaemonRelease
    \/ ConsumerTryRead
    \/ ConsumerTryReadFail
    \/ ConsumerCopy
    \/ WindowReopen

Spec == Init /\ [][Next]_vars

-----------------------------------------------------------------------------
(* The decoder alone, on one line *)

Hostnames ==
    {HostA, HostAEscaped, HostBadEscape,
     <<92, 57, 57, 57>>,        \* \999
     <<92, 50, 53, 53>>,        \* \255
     <<92, 51, 50>>,            \* \32
     <<92, 50, 53, 53, 53>>,    \* \2555
     <<97, 92, 46, 98>>,        \* a\.b
     <<92, 92, 46, 54>>,        \* \\.6
     <<92>>,                    \* a lone backslash
     <<92, 1635>>,              \* \ and ARABIC-INDIC DIGIT THREE
     <<92, 57, 1635>>,          \* \9 and ARABIC-INDIC DIGIT THREE
     <<92, 65297, 97>>,         \* \, FULLWIDTH DIGIT ONE and a
     <<92, 90416>>}             \* \ and KIRAT RAI DIGIT ZERO

ModeFields == {<<Plus>>, <<Equals>>, <<Minus>>, <<120>>, <<>>, <<Equals, 120>>}
FamilyTokens == {"IPv4", "IPv6", "ipv4"}
\* FE80::3E6A:9DFF:FE21:B16, the address of AddrFe80
AddrFe80Upper ==
    <<70, 69, 56, 48, 58, 58, 51, 69, 54, 65, 58, 57, 68, 70, 70, 58, 70,
      69, 50, 49, 58, 66, 49, 54>>
\* fe80:0:0:0:3e6a:9dff:fe21:b16, the same again
AddrFe80Long ==
    <<102, 101, 56, 48, 58, 48, 58, 48, 58, 48, 58, 51, 101, 54, 97, 58,
      57, 100, 102, 102, 58, 102, 101, 50, 49, 58, 98, 49, 54>>
AddrLoopback6 == <<58, 58, 49>>  \* ::1
\* ::ffff:10.0.0.7
AddrMapped ==
    <<58, 58, 102, 102, 102, 102, 58, 49, 48, 46, 48, 46, 48, 46, 55>>
\* 10.0.0.07: a zero before another digit
AddrZeroPrefix ==
    <<49, 48, 46, 48, 46, 48, 46, 48, 55>>
AddrOctet256 == <<49, 48, 46, 48, 46, 48, 46, 50, 53, 54>>  \* 10.0.0.256
\* not-an-address
AddrNone ==
    <<110, 111, 116, 45, 97, 110, 45, 97, 100, 100, 114, 101, 115, 115>>

IpTexts ==
    {Addr192, AddrFe80, AddrFe80Upper, AddrFe80Long, AddrLoopback6,
     AddrMapped, AddrZeroPrefix, AddrOctet256, AddrNone}
PortTexts == {Port9123, Port80, <<54, 53, 53, 51, 54>>, <<120>>, <<>>}

DecodeLines ==
    {Line(m, f, h, ip, port, n) :
        m \in ModeFields, f \in FamilyTokens, h \in Hostnames,
        ip \in IpTexts, port \in PortTexts, n \in 1..11}

DaemonOff ==
    /\ devices = <<>>
    /\ local = <<>>
    /\ stable = <<>>
    /\ dpc = "off"
    /\ cur = NoLine
    /\ pkt = NoPacket
    /\ nread = 0
    /\ writer = FALSE
    /\ readers = 0
    /\ cpc = "off"
    /\ okIdx = <<>>
    /\ applied = <<>>
    /\ lastRes = NoResult
    /\ held = {}
    /\ seen = 0
    /\ seed = <<>>

InitDecode ==
    /\ DaemonOff
    /\ OneShotOff
    /\ ControlOff
    /\ dline \in DecodeLines
    /\ dres = NoResult

\* MdnsPacket::try_from(line)
DecodeLine ==
    /\ dres = NoResult
    /\ dres' = MdnsPacketTryFrom(dline)
    /\ UNCHANGED dline
    /\ UNCHANGED daemonVars
    /\ UNCHANGED oneShotVars
    /\ UNCHANGED controlVars

NextDecode == DecodeLine

SpecDecode == InitDecode /\ [][NextDecode]_vars

-----------------------------------------------------------------------------
(* One-shot discovery: find_elgato_devices run once in each environment *)

\* `which` finding nothing means the tool is not on the PATH, so running it
\* fails too.
Environments ==
    {env \in [which : WhichOutcomes, tool : {"runs", "io_error"},
              utf8 : BOOLEAN, lines : SeqsUpTo(BrowseLines, MaxSnapshot)] :
        env.which = "prints_nothing" => env.tool = "io_error"}

InitOneShot ==
    /\ DaemonOff
    /\ DecodeOff
    /\ ControlOff
    /\ oin \in Environments
    /\ ores = NoResult

FindDevices ==
    /\ ores = NoResult
    /\ ores' = FindElgatoDevicesEnv(oin)
    /\ UNCHANGED oin
    /\ UNCHANGED daemonVars
    /\ UNCHANGED decodeVars
    /\ UNCHANGED controlVars

NextOneShot == FindDevices

SpecOneShot == InitOneShot /\ [][NextOneShot]_vars

-----------------------------------------------------------------------------
(* Properties of the registry *)

HasName(devs, name) == \E i \in 1..Len(devs) : devs[i].name = name

CountName(devs, name) == Cardinality({i \in 1..Len(devs) : devs[i].name = name})

WithoutName(devs, name) == SelectSeq(devs, LAMBDA d : d.name # name)

\* The daemon has applied the packet `pkt` and still holds the write guard:
\* `stable` is the registry before the transition, `devices` the one after.
JustApplied(mode) == dpc = "unlock" /\ pkt.mode = mode

\* C1: no two devices of the registry have the same name, whether the
\* registry started empty or from a one-shot snapshot, and whatever New,
\* Resolved and Exited announcements have been applied.
UniqueNames ==
    \A i, j \in 1..Len(devices) :
        devices[i].name = devices[j].name => i = j

\* C1 witness: a Resolved announcement for a known name has just been applied
\* to a registry of two devices, after an earlier transition.
UniqueNamesWitness ==
    /\ JustApplied("Resolved")
    /\ Len(applied) >= 2
    /\ Len(stable) = 2
    /\ HasName(stable, pkt.base.hostname)

\* C2: an Exited announcement for the name of a device in the registry
\* removes exactly that device: the registry afterwards is the one before
\* without the device of that name, the others in their order.
ExitedRemovesNamed ==
    (JustApplied("Exited") /\ HasName(stable, pkt.base.hostname))
        => devices = WithoutName(stable, pkt.base.hostname)

\* C3: an Exited announcement for a name that no device of the registry has
\* returns Ok and leaves the device list unchanged.
ExitedAbsentIsNoop ==
    (JustApplied("Exited") /\ ~HasName(stable, pkt.base.hostname))
        => (devices = stable /\ lastRes = Ok(Unit))

\* C4 as stated: a Resolved announcement for a known name changes nothing;
\* applying it a second time changes nothing either, and there is exactly
\* one device of that name afterwards.
ResolvedIdempotentExactlyOne ==
    JustApplied("Resolved") =>
        /\ (HasName(stable, pkt.base.hostname) => devices = stable)
        /\ ProcessPacket(devices, pkt).devices = devices
        /\ CountName(devices, pkt.base.hostname) = 1

\* C4 amended: a Resolved announcement for a known name changes nothing,
\* the stored URL included; applying it a second time changes nothing
\* either; afterwards there is at most one device of that name, and exactly
\* one unless the name was absent and the URL could not be built (the call
\* returned the error).
ResolvedIdempotent ==
    JustApplied("Resolved") =>
        /\ (HasName(stable, pkt.base.hostname) => devices = stable)
        /\ ProcessPacket(devices, pkt).devices = devices
        /\ CountName(devices, pkt.base.hostname) <= 1
        /\ (CountName(devices, pkt.base.hostname) = 0
                <=> (~HasName(stable, pkt.base.hostname) /\ lastRes.kind = "Err"))

\* C4 witness: a Resolved announcement for a known name, carrying another
\* address and port than the stored URL, has just been applied.
ResolvedIdempotentWitness ==
    /\ JustApplied("Resolved")
    /\ \E i \in 1..Len(stable) :
          /\ stable[i].name = pkt.base.hostname
          /\ pkt.service.ip.family = "V4"
          /\ stable[i].url.host # Ipv4Display(pkt.service.ip.addr)
    /\ lastRes = Ok(Unit)

\* The URL Device::from_packet stores for a packet it can build one for.
UrlOfPacket(u, packet) ==
    /\ u.host = Ipv4Display(packet.service.ip.addr)
    /\ u.port = IF packet.service.port = HttpDefaultPort
                THEN None ELSE Some(packet.service.port)

AppendedOne(packet) ==
    /\ Len(devices) = Len(stable) + 1
    /\ SubSeq(devices, 1, Len(stable)) = stable
    /\ devices[Len(devices)].name = packet.base.hostname
    /\ UrlOfPacket(devices[Len(devices)].url, packet)

\* C5 as stated: a Resolved announcement for a name the registry does not
\* have appends exactly one device of that name at the end.
ResolvedAppendsAlways ==
    (JustApplied("Resolved") /\ ~HasName(stable, pkt.base.hostname))
        => AppendedOne(pkt)

\* C5 amended: a Resolved announcement for a name the registry does not have
\* appends exactly one device (that name, the URL of its address and port)
\* at the end and leaves the others as they were, when the URL can be built,
\* which it can for every V4 address; when it cannot, the call returns the
\* error and the device list is unchanged.
ResolvedAppends ==
    (JustApplied("Resolved") /\ ~HasName(stable, pkt.base.hostname)) =>
        /\ (lastRes.kind = "Ok" => AppendedOne(pkt))
        /\ (lastRes.kind = "Err" => devices = stable)
        /\ lastRes.kind \in {"Ok", "Err"}
        /\ (pkt.service.ip.family = "V4" => lastRes.kind = "Ok")

\* C5 witness: a Resolved announcement for a new name has just been applied
\* to a registry that is not empty, and a device was appended.
ResolvedAppendsWitness ==
    /\ JustApplied("Resolved")
    /\ ~HasName(stable, pkt.base.hostname)
    /\ Len(stable) >= 1
    /\ Len(devices) = Len(stable) + 1

-----------------------------------------------------------------------------
(* Properties of the daemon and the consumer *)

\* C6: every copy the consumer takes through the lock is taken while no
\* write guard is alive and equals the registry at a transition boundary
\* (before or after a transition, never in between).
ReadsSeeBoundaryStates ==
    [][(cpc = "copy" /\ cpc' = "idle") => (~writer /\ local' = stable)]_vars

\* C6 witness: the consumer holds a read guard on a registry that a
\* transition has changed, while the daemon waits to apply the next one.
ReadsSeeBoundaryStatesWitness ==
    /\ cpc = "copy"
    /\ dpc = "lock"
    /\ Len(applied) >= 1
    /\ devices # local

IsPrefix(p, q) == Len(p) <= Len(q) /\ SubSeq(q, 1, Len(p)) = p

\* C7: the packets are applied in the order their lines were read, one at
\* a time: the applied lines are a prefix of the decoded lines, at most the
\* line just read is decoded and not yet applied, and whenever the daemon
\* reads or decodes a line every earlier decoded line has been applied.
AppliedInOrder ==
    /\ IsPrefix(applied, okIdx)
    /\ Len(okIdx) - Len(applied) <= 1
    /\ \A i \in 1..Len(okIdx) : \A j \in 1..Len(okIdx) :
          i < j => okIdx[i] < okIdx[j]
    /\ (dpc \in {"read", "decode"} => applied = okIdx)
    /\ (dpc \in {"lock", "apply"} =>
            /\ okIdx = Append(applied, nread)
            /\ Ok(pkt) = MdnsPacketTryFrom(cur))

\* C7 witness: three lines were read, the second did not decode, and the
\* first and the third have been applied in that order.
AppliedInOrderWitness ==
    /\ nread = 3
    /\ applied = <<1, 3>>
    /\ dpc = "read"

\* A step of the daemon thread
DaemonStep == dpc' # dpc

\* C8: a line that decodes to an error value, and a packet for which
\* process_packet returns the resolution error, leave the registry as it
\* was, and the daemon goes on to read the next line.
LineErrorsAreSkipped ==
    [][/\ (dpc = "decode" /\ MdnsPacketTryFrom(cur).kind = "Err" /\ DaemonStep)
            => (devices' = devices /\ dpc' = "read")
       /\ (dpc = "apply" /\ DaemonStep /\ lastRes'.kind = "Err")
            => (devices' = devices /\ dpc' = "unlock")
       /\ (dpc = "unlock" /\ DaemonStep)
            => (devices' = devices /\ dpc' = "read")]_vars

\* C8 witness: the first line did not decode, the second gave a resolution
\* error, and the daemon has decoded the third.
LineErrorsAreSkippedWitness ==
    /\ okIdx = <<2, 3>>
    /\ lastRes.kind = "Err"
    /\ dpc = "lock"

\* C9: the daemon thread never ends because of what a line contains.
NoAbortOnLineContent == dpc # "aborted_decode"

-----------------------------------------------------------------------------
(* Properties of the decoder *)

\* the digits that follow the backslash s begins with
EscapeDigits(s) == SubSeq(s, 2, DigitRun(Tail(s)) + 1)

\* The hostname field holds a backslash followed by ASCII digits of a value
\* above 255.
RECURSIVE HasOutOfRangeEscape(_)
HasOutOfRangeEscape(s) ==
    /\ Len(s) >= 2
    /\ \/ /\ s[1] = Backslash
          /\ DigitRun(Tail(s)) > 0
          /\ \A i \in 1..Len(EscapeDigits(s)) : IsAsciiDigit(EscapeDigits(s)[i])
          /\ DecimalValue(EscapeDigits(s)) > U8Max
       \/ HasOutOfRangeEscape(Tail(s))

\* The hostname field holds a backslash followed by decimal digits that are
\* no number of one byte: a value above 255, or a digit that is not ASCII.
RECURSIVE HasUnreadableEscape(_)
HasUnreadableEscape(s) ==
    /\ Len(s) >= 2
    /\ \/ /\ s[1] = Backslash
          /\ DigitRun(Tail(s)) > 0
          /\ \/ \E i \in 1..Len(EscapeDigits(s)) :
                    ~IsAsciiDigit(EscapeDigits(s)[i])
             \/ DecimalValue(EscapeDigits(s)) > U8Max
       \/ HasUnreadableEscape(Tail(s))

\* C10: the decoder returns an Announcement or a decode error for every
\* line, and a decode error for a line whose hostname field holds an escape
\* of a value in 256..999.
DecoderReturnsValue ==
    dres # NoResult =>
        /\ dres.kind \in {"Ok", "Err"}
        /\ (Len(dline) >= 4 /\ HasOutOfRangeEscape(dline[4])) => dres.kind = "Err"


-----------------------------------------------------------------------------
(* One-shot discovery: claims *)

\* find_elgato_devices has returned, and the tool ran and its output was read
Captured ==
    /\ ores # NoResult
    /\ oin.which = "prints_path"
    /\ oin.tool = "runs"
    /\ oin.utf8

LineResult(i) == MdnsPacketTryFrom(oin.lines[i])

AllLinesDecode == \A i \in 1..Len(oin.lines) : LineResult(i).kind = "Ok"

\* C11: when any line of the captured output fails to decode, the one-shot
\* discovery returns an error, and no device list.
OneShotFailFast ==
    (Captured /\ ~AllLinesDecode) => ores.kind = "Err"

\* the announcement line i decoded to
Announced(i) == LineResult(i).val

ResolvedAt(i) == Announced(i).mode = "Resolved"

\* line i is a Resolved announcement whose device URL can be built
ResolvedWithUrlAt(i) ==
    /\ ResolvedAt(i)
    /\ UrlParse(Announced(i).service.ip, Announced(i).service.port).kind = "Ok"

\* The snapshot holds one device per hostname of the lines At selects,
\* in the order of each hostname's first selected line, with that line's URL.
SnapshotOfFirsts(At(_)) ==
    LET n == Len(oin.lines)
        sel == {i \in 1..n : At(i)}
        name(i) == Announced(i).base.hostname
        first(h) == CHOOSE i \in sel :
                        /\ name(i) = h
                        /\ \A j \in sel : name(j) = h => i <= j
        snap == ores.val
    IN  /\ ores.kind = "Ok"
        /\ {snap[k].name : k \in 1..Len(snap)} = {name(i) : i \in sel}
        /\ \A k, l \in 1..Len(snap) :
              k < l => /\ snap[k].name # snap[l].name
                       /\ first(snap[k].name) < first(snap[l].name)
        /\ \A k \in 1..Len(snap) :
              UrlOfPacket(snap[k].url, Announced(first(snap[k].name)))

\* C12 as stated: the snapshot of successfully decoded announcements holds
\* one device per hostname of a Resolved announcement, in first-occurrence
\* order, with the URL of the hostname's first Resolved announcement.
SnapshotPerResolvedName ==
    (Captured /\ AllLinesDecode) => SnapshotOfFirsts(ResolvedAt)

\* C12: the snapshot of successfully decoded announcements holds one device
\* per hostname of a Resolved announcement whose URL can be built, in the
\* order of the first such announcement of each hostname and with its URL;
\* New and Exited announcements, and Resolved ones without a URL, add nothing.
SnapshotPerUrlName ==
    (Captured /\ AllLinesDecode) => SnapshotOfFirsts(ResolvedWithUrlAt)

\* two Resolved lines of one hostname with different URLs, and one device
SnapshotPerUrlNameWitness ==
    /\ Captured
    /\ oin.lines = <<LineResolvedC6, LineResolvedC4>>
    /\ ores.kind = "Ok"
    /\ Len(ores.val) = 1

UrlFailureAt(i) ==
    /\ LineResult(i).kind = "Ok"
    /\ DeviceFromPacket(Announced(i)).kind = "Err"

\* C13 as stated: in the one-shot path a device URL that cannot be built
\* makes find_elgato_devices return an error.
OneShotUrlErrorPropagates ==
    (Captured /\ AllLinesDecode /\ \E i \in 1..Len(oin.lines) : UrlFailureAt(i))
        => ores.kind = "Err"

\* C13: in the one-shot path a device URL that cannot be built only leaves
\* that device out: find_elgato_devices still returns the snapshot, without
\* a device built from that announcement.
OneShotUrlErrorSkips ==
    (Captured /\ AllLinesDecode)
        => /\ ores.kind = "Ok"
           /\ \A i \in 1..Len(oin.lines) :
                 UrlFailureAt(i) =>
                    \A k \in 1..Len(ores.val) :
                        ~(/\ ores.val[k].name = Announced(i).base.hostname
                          /\ UrlOfPacket(ores.val[k].url, Announced(i)))

OneShotUrlErrorSkipsWitness ==
    /\ Captured
    /\ oin.lines = <<LineResolvedA, LineResolvedC6>>
    /\ ores.kind = "Ok"
    /\ Len(ores.val) = 1

\* C14: when `which` runs and finds no avahi-browse, the one-shot discovery
\* fails with AvahiBrowseNotInstalled and returns no device list.
ToolMissingIsNotInstalled ==
    (ores # NoResult /\ oin.which = "prints_nothing")
        => ores = Err(DiscoverError("AvahiBrowseNotInstalled", "none"))


-----------------------------------------------------------------------------
(* Properties of the lock, the consumer and the end of the daemon *)

\* C15: the daemon holds the write lock only while it applies one
\* transition, never while it reads or decodes; it takes the lock once for
\* each decoded line, the one just decoded, and drops it once that line has
\* been applied.
WriteLockOnlyWhileApplying ==
    /\ [](writer <=> dpc \in {"apply", "unlock"})
    /\ [][(~writer /\ writer') =>
             (/\ dpc = "lock"
              /\ okIdx = Append(applied, nread)
              /\ applied' = applied)]_vars
    /\ [][(writer /\ ~writer') =>
             (/\ dpc = "unlock"
              /\ applied = okIdx
              /\ nread' = nread)]_vars

\* a consumer reads the registry while the daemon decodes its second line
WriteLockOnlyWhileApplyingWitness ==
    /\ dpc = "decode"
    /\ Len(applied) = 1
    /\ cpc = "copy"
    /\ ~writer

\* one update() of the consumer, from where it is
ConsumerUpdate ==
    IF cpc = "idle" THEN ConsumerTryRead \/ ConsumerTryReadFail
    ELSE ConsumerCopy

\* C16: the consumer never waits for the registry: whatever the daemon
\* holds, an update can go on.  A read that succeeds makes the local list
\* the registry; no other step of an update changes the local list (the one
\* other change is a new window, which starts from the list the registry
\* was created with); so the local list is always a value the registry has
\* or had.
ConsumerNeverBlocks ==
    /\ [](ENABLED ConsumerUpdate)
    /\ [](local \in held)
    /\ [](seed \in held)
    /\ [][(cpc = "copy" /\ cpc' = "idle") => local' = devices]_vars
    /\ [][~(cpc = "copy" /\ cpc' = "idle") =>
            (local' = local \/ (cpc = "idle" /\ cpc' = "idle" /\ local' = seed))]_vars

\* the daemon holds the write lock over a changed registry, and the
\* consumer is left with the list of an earlier read
ConsumerNeverBlocksWitness ==
    /\ writer
    /\ cpc = "idle"
    /\ local # devices
    /\ local # stable
    /\ Len(applied) >= 2

Terminated == dpc \in {"done", "aborted_spawn", "aborted_read", "aborted_decode"}

\* the subprocess could not be started, closed its output, or reading it
\* failed
SourceEnded == dpc \in {"done", "aborted_spawn", "aborted_read"}

\* C17: the daemon ends only when its line source has ended, and then with
\* every line it decoded applied; while the source is open it does not end.
DaemonEndsOnlyWithSource ==
    Terminated => (SourceEnded /\ applied = okIdx)

\* C20: a New announcement returns Ok and leaves the registry unchanged.
NewIsNoop ==
    JustApplied("New") => (devices = stable /\ lastRes = Ok(Unit))

NewIsNoopWitness ==
    /\ JustApplied("New")
    /\ Len(stable) >= 1
    /\ lastRes = Ok(Unit)


-----------------------------------------------------------------------------
(* Properties of the decoder: field counts and tokens *)

Decoded == dres # NoResult

\* the leading character of field 0, or 0 when field 0 is empty
LeadingChar == IF Len(dline[1]) > 0 THEN dline[1][1] ELSE 0

ModeOfChar(c) ==
    CASE c = Plus -> "New"
      [] c = Equals -> "Resolved"
      [] c = Minus -> "Exited"

FamilyOfToken(t) == IF t = "IPv4" THEN "V4" ELSE "V6"

\* fields 0-5 are there and valid
ValidBaseFields ==
    /\ Len(dline) >= 6
    /\ LeadingChar \in {Plus, Equals, Minus}
    /\ dline[3] \in {"IPv4", "IPv6"}
    /\ ~HasUnreadableEscape(dline[4])

\* a New or Exited line with valid fields 0-5 decodes to its variant,
\* whatever follows field 5
BaseOnlyDecodes ==
    (ValidBaseFields /\ LeadingChar \in {Plus, Minus})
        => /\ dres.kind = "Ok"
           /\ DOMAIN dres.val = {"mode", "base"}
           /\ dres.val.mode = ModeOfChar(LeadingChar)
           /\ dres.val.base.interface_name = dline[2]
           /\ dres.val.base.internet_protocol = FamilyOfToken(dline[3])
           /\ dres.val.base.service_type = dline[5]
           /\ dres.val.base.domain = dline[6]

TooFewFields ==
    \/ Len(dline) < 6
    \/ (LeadingChar = Equals /\ Len(dline) < 9)

\* a decoded Resolved line carries fields 9.. as its attribute list
AttributesVerbatim ==
    (dres.kind = "Ok" /\ dres.val.mode = "Resolved")
        => dres.val.service.data = SubSeq(dline, 10, Len(dline))

\* C18 as stated: a New or Exited line with valid fields 0-5 decodes to its
\* variant whatever follows; a line with fewer than 6 fields, or a Resolved
\* line with fewer than 9, gives NotEnoughArgs; a Resolved line's fields from
\* position 9 on are its attribute list.
FieldCountAlwaysNotEnoughArgs ==
    Decoded =>
        /\ BaseOnlyDecodes
        /\ TooFewFields => dres = Err("NotEnoughArgs")
        /\ AttributesVerbatim

\* the fields that are there hold a mode, a family, a hostname and an
\* address the decoder accepts
PresentFieldsValid ==
    /\ Len(dline[1]) > 0 => LeadingChar \in {Plus, Equals, Minus}
    /\ Len(dline) >= 3 => dline[3] \in {"IPv4", "IPv6"}
    /\ Len(dline) >= 4 => ~HasUnreadableEscape(dline[4])
    /\ (LeadingChar = Equals /\ Len(dline) >= 8)
          => IpAddrFromStr(dline[8]).kind = "Ok"

\* C18: a New or Exited line with valid fields 0-5 decodes to its variant
\* whatever follows; a line with fewer than 6 fields, or a Resolved line with
\* fewer than 9, whose fields, as far as they go, are valid gives
\* NotEnoughArgs; a Resolved line's fields from position 9 on are its
\* attribute list.
FieldCountContract ==
    Decoded =>
        /\ BaseOnlyDecodes
        /\ (TooFewFields /\ PresentFieldsValid) => dres = Err("NotEnoughArgs")
        /\ AttributesVerbatim

\* a New line of eleven fields, the last five of them ignored
FieldCountContractWitness ==
    /\ Decoded
    /\ Len(dline) = 11
    /\ LeadingChar = Plus
    /\ dline[8] = AddrNone
    /\ dres.kind = "Ok"

\* C19: the mode is New, Resolved or Exited exactly when field 0 begins with
\* '+', '=' or '-', and any other leading character gives ModeParse; the
\* family is V4 or V6 exactly when field 2 is IPv4 or IPv6, and any other
\* token gives IpTypeParse; ModeParse, IpTypeParse and NotEnoughArgs are
\* three different errors.
TokenMapping ==
    (Decoded /\ Len(dline[1]) > 0) =>
        /\ LeadingChar \notin {Plus, Equals, Minus} <=> dres = Err("ModeParse")
        /\ dres.kind = "Ok" => dres.val.mode = ModeOfChar(LeadingChar)
        /\ (LeadingChar \in {Plus, Equals, Minus} /\ Len(dline) >= 3)
              => /\ dline[3] \notin {"IPv4", "IPv6"} <=> dres = Err("IpTypeParse")
                 /\ dres.kind = "Ok" =>
                       dres.val.base.internet_protocol = FamilyOfToken(dline[3])
        /\ dres = Err("IpTypeParse") => Len(dline) >= 3
        /\ Cardinality({Err("ModeParse"), Err("IpTypeParse"),
                        Err("NotEnoughArgs")}) = 3

\* a line that begins "=x" and names IPv6 decodes to Resolved, V6
TokenMappingWitness ==
    /\ Decoded
    /\ dline[1] = <<Equals, 120>>
    /\ dres.kind = "Ok"
    /\ dres.val.mode = "Resolved"
    /\ dres.val.base.internet_protocol = "V6"


-----------------------------------------------------------------------------
(* Properties of the daemon's abort points and of progress *)

Aborted ==
    dpc \in {"aborted_spawn", "aborted_read", "aborted_decode", "aborted_apply"}

\* C23: the daemon thread never ends abnormally with the write lock held:
\* it is without the lock at each of its abort points, process_packet does
\* not panic, so the lock is never poisoned, and a read attempt of the
\* consumer succeeds whenever no write guard is alive, also once the daemon
\* thread has ended.
NoAbortUnderWriteLock ==
    /\ [](Aborted => ~writer)
    /\ [](lastRes.kind # "Panic")
    /\ [](~Poisoned)
    /\ []((cpc = "idle" /\ ~writer) => ENABLED ConsumerTryRead)
    /\ [][(~Aborted /\ Aborted') => (~writer /\ dpc \in {"spawn", "read", "decode"})]_vars

\* the daemon thread has ended in the decoder after applying a line, and
\* the consumer is reading the registry
NoAbortUnderWriteLockWitness ==
    /\ dpc = "aborted_decode"
    /\ Len(applied) >= 1
    /\ cpc = "copy"
    /\ readers = 1

Range(q) == {q[i] : i \in 1..Len(q)}


\* Fair scheduling of the two threads.  The daemon thread, once it has a
\* packet, applies it and releases the lock without waiting for anyone; its
\* write() waits for the read guard to be dropped and then gets the lock
\* although the consumer keeps coming back for it (strong fairness).  The
\* consumer keeps calling update().  Nothing is assumed of the subprocess:
\* it may never write another line.
Fairness ==
    /\ SF_vars(DaemonAcquireWrite)
    /\ WF_vars(DaemonApply)
    /\ WF_vars(DaemonRelease)
    /\ WF_vars(ConsumerTryRead)
    /\ WF_vars(ConsumerCopy)

SpecFair == Spec /\ Fairness

\* C24: under fair scheduling every line the daemon decoded to a packet is
\* eventually applied to the registry, and the consumer eventually has the
\* copy of a registry to which that line and all before it were applied.
DecodedLinesGetApplied ==
    \A k \in 1..MaxLines :
        (Len(okIdx) >= k) ~>
            (/\ Len(applied) >= k
             /\ applied[k] = okIdx[k]
             /\ seen >= k
             /\ cpc = "idle")

\* the consumer has copied the registry after the second transition, having
\* been in the way of the daemon's write() before
DecodedLinesGetAppliedWitness ==
    /\ seen = 2
    /\ Len(applied) = 2
    /\ local = devices
    /\ local # <<>>
    /\ dpc = "read"


-----------------------------------------------------------------------------
(* unsigned_int.rs, keylight.rs: the status of a device *)

\* type Brightness = UnsignedInt<u8, 0, 100>
BrightnessMin == 0
BrightnessMax == 100

\* type Temperature = UnsignedInt<u16, 143, 344>
TemperatureMin == 143
TemperatureMax == 344

BRIGHTNESS_DELTA_VALUE == 10
TEMPERATURE_DELTA_VALUE == 20

\* UnsignedInt::<I, S, E>::new
UnsignedIntNew_NoLowerBound(n, S, E) ==
    IF n > E THEN Err("OutsideRange") ELSE Ok(n)

UnsignedIntNew(n, S, E) ==
    IF n < S \/ n > E THEN Err("OutsideRange") ELSE Ok(n)

\* u8::saturating_add, u16::saturating_add: max is the largest value of the type
SaturatingAdd(a, b, max) == IF a + b > max THEN max ELSE a + b

\* saturating_sub of an unsigned type
SaturatingSub(a, b) == IF a < b THEN 0 ELSE a - b

\* PowerStatus::toggle
Toggle(power) == IF power = "Off" THEN "On" ELSE "Off"

\* the closure of toggle_power
ToggleLight(light) == [light EXCEPT !.power = Toggle(@)]

\* the closure of incr_brightness
StepBrightness(light, delta) ==
    LET new_raw_value ==
            IF delta = "Incr"
            THEN SaturatingAdd(light.brightness, BRIGHTNESS_DELTA_VALUE, U8Max)
            ELSE SaturatingSub(light.brightness, BRIGHTNESS_DELTA_VALUE)
        new_brightness ==
            UnsignedIntNew(new_raw_value, BrightnessMin, BrightnessMax)
    IN  IF new_brightness.kind = "Ok"
        THEN [light EXCEPT !.brightness = new_brightness.val]
        ELSE light

\* the closure of incr_temperature
StepTemperature(light, delta) ==
    LET new_raw_value ==
            IF delta = "Incr"
            THEN SaturatingAdd(light.temperature, TEMPERATURE_DELTA_VALUE, U16Max)
            ELSE SaturatingSub(light.temperature, TEMPERATURE_DELTA_VALUE)
        new_temperature ==
            UnsignedIntNew(new_raw_value, TemperatureMin, TemperatureMax)
    IN  IF new_temperature.kind = "Ok"
        THEN [light EXCEPT !.temperature = new_temperature.val]
        ELSE light

\* the closure of Commands::Set: brightness.unwrap_or(..), temperature.unwrap_or(..)
SetValues(light, brightness, temperature) ==
    [light EXCEPT
        !.brightness = IF brightness.some THEN brightness.v ELSE @,
        !.temperature = IF temperature.some THEN temperature.v ELSE @]

\* The closures handed to DeviceStatus::set, as data: what the closure makes
\* of the light it is given
ApplyUpdate(update, light) ==
    CASE update.kind = "toggle" -> ToggleLight(light)
      [] update.kind = "brightness" -> StepBrightness(light, update.delta)
      [] update.kind = "temperature" -> StepTemperature(light, update.delta)
      [] update.kind = "set" ->
            SetValues(light, update.brightness, update.temperature)

\* DeviceStatus::set(index, update).  `self.number_of_lights - 1` is a usize
\* subtraction: for number_of_lights = 0 it panics in a build with overflow
\* checks and wraps to usize::MAX, which no index exceeds, in one without.
\* get_mut(index) is None, and unwrap() panics, past the end of lights.
DeviceStatusSet(status, index, update, checks) ==
    IF status.number_of_lights = 0 /\ checks
    THEN [status |-> status, result |-> Panic]
    ELSE IF status.number_of_lights # 0 /\ index > status.number_of_lights - 1
    THEN [status |-> status, result |-> Err("Invalid index")]
    ELSE IF index >= Len(status.lights)
    THEN [status |-> status, result |-> Panic]
    ELSE [status |-> [status EXCEPT !.lights[index + 1] = ApplyUpdate(update, @)],
          result |-> Ok(Unit)]

-----------------------------------------------------------------------------
(* lib.rs, http.rs, bin/cli.rs: the operations on a device.  An operation  *)
(* awaits the answer to its GET, changes the status it was given and        *)
(* awaits the answer to its PUT (toggle_power awaits notify before that);   *)
(* other operations run at every await.                                     *)

LightsAtStart ==
    [power : {"Off"}, brightness : {BrightnessMax},
     temperature : {TemperatureMax, TemperatureMin + 1}]

OtherLight == [power |-> "On", brightness |-> 3, temperature |-> 191]

\* the first n of a light followed by copies of OtherLight
LightsOf(light, n) == [k \in 1..n |-> IF k = 1 THEN light ELSE OtherLight]

\* The statuses a device may answer with: the bounded integers are checked
\* when the answer is deserialized, number_of_lights and lights are not
\* checked against each other.
DeviceStatuses ==
    {[number_of_lights |-> c, lights |-> LightsOf(light, n)] :
        c \in 0..MaxLights, n \in 0..MaxLights, light \in LightsAtStart}

InitControl ==
    /\ DaemonOff
    /\ DecodeOff
    /\ OneShotOff
    /\ kdev \in DeviceStatuses
    /\ klast = NoResult
    /\ kflight = EmptyBag
    /\ kstarted = 0
    /\ overflow_checks \in BOOLEAN
    /\ base_put \in BOOLEAN

\* The path of the URL the commands are given, http://{ip}:{port}, and of
\* that URL joined with KEYLIGHT_API_PATH, "elgato/lights".
BaseUrlPath == "/"
KeylightApiPath == "/elgato/lights"

\* An operation from its GET on: what it was called with, whether the GET
\* is answered, and the status the device held when the GET reached it,
\* which is the status of the answer.
Request(cmd, delta, update, reachable, put_path) ==
    [cmd |-> cmd, delta |-> delta, update |-> update,
     reachable |-> reachable, put_path |-> put_path, before |-> kdev]

\* An operation that fetches the status, changes light 0 and puts the
\* status back, from the answer to its GET up to its next await:
\* get_status(url).await?, status.set(0, update)?.  The status is the one
\* of the answer, whatever the device has come to hold since.  `sent` is
\* the status the PUT will carry, to the URL of the given path.
CommandOutcome(request) ==
    LET set == DeviceStatusSet(request.before, 0, request.update,
                               overflow_checks)
        result == IF ~request.reachable THEN Err("Http")
                  ELSE IF set.result.kind # "Ok" THEN set.result
                  ELSE Ok(Unit)
    IN  [cmd |-> request.cmd, delta |-> request.delta, index |-> 0,
         before |-> request.before,
         after |-> IF request.reachable THEN set.status ELSE request.before,
         result |-> result,
         put_path |-> request.put_path,
         sent |-> IF result.kind = "Ok" THEN Some(set.status) ELSE None]

\* Commands::Status from the answer to its GET on: the status of the answer
\* is printed
StatusOutcome(request) ==
    [cmd |-> request.cmd, delta |-> "None", index |-> 0,
     before |-> request.before, after |-> request.before,
     result |-> IF request.reachable THEN Ok(Unit) ELSE Err("Http"),
     put_path |-> "None",
     sent |-> None]

\* The device serves its API at KeylightApiPath; whether it takes a PUT at
\* another path as well is up to the device.
DeviceTakesPut(path) == path = KeylightApiPath \/ base_put

\* the status the device holds after the PUT of an operation has reached
\* it: the status sent, whatever the device held
DeviceAfter(outcome) ==
    IF DeviceTakesPut(outcome.put_path) THEN outcome.sent.v ELSE kdev

\* toggle_power(url): the PUT is set_status(url, status), to the joined URL
TogglePowerRequest(cmd, reachable) ==
    LET update == [kind |-> "toggle"]
    IN  Request(cmd, "None", update, reachable, KeylightApiPath)

\* incr_brightness(url, delta): the PUT is reqwest's put(url), to the URL
\* as it was given
IncrBrightnessRequest(cmd, delta, reachable) ==
    LET update == [kind |-> "brightness", delta |-> delta]
    IN  Request(cmd, delta, update, reachable, BaseUrlPath)

\* incr_temperature(url, delta): the PUT is reqwest's put(url) as well
IncrTemperatureRequest(cmd, delta, reachable) ==
    LET update == [kind |-> "temperature", delta |-> delta]
    IN  Request(cmd, delta, update, reachable, BaseUrlPath)

Deltas == {"Incr", "Decr"}

\* An operation is in flight from its first request to its return, at one
\* of its awaits: "get", the GET has reached the device (or has failed)
\* and the operation waits for get_status to return; "notify", before
\* toggle_power's notify; "put", before its PUT; "return", the PUT has
\* reached the device (or has failed) and the operation waits for send()
\* to return.
CanBegin ==
    /\ kstarted < MaxCommands
    /\ BagCardinality(kflight) < MaxInFlight

InFlight(op, stage) == [stage |-> stage, op |-> op]

\* the operations in flight once one has sent its GET
FlightAfterBegin(request) == kflight (+) SetToBag({InFlight(request, "get")})

\* the operations in flight once f has gone on to a next await as `next`
FlightAfter(f, next) == (kflight (-) SetToBag({f})) (+) SetToBag({next})

\* toggle_power awaits notify between its set and its PUT
StageAfterGet(cmd) == IF cmd = "Toggle" THEN "notify" ELSE "put"

\* get_status(..).await of an operation in flight returns: Commands::Status
\* prints what it was given and returns; another operation runs its set on
\* what it was given, and returns with `?` (or panics) or goes on to its
\* next await.
GetAnswered ==
    \E f \in BagToSet(kflight) :
        /\ f.stage = "get"
        /\ IF f.op.cmd = "Status"
           THEN /\ kflight' = kflight (-) SetToBag({f})
                /\ klast' = StatusOutcome(f.op)
           ELSE IF CommandOutcome(f.op).result.kind = "Ok"
           THEN /\ kflight' =
                       FlightAfter(f, InFlight(CommandOutcome(f.op),
                                               StageAfterGet(f.op.cmd)))
                /\ UNCHANGED klast
           ELSE /\ kflight' = kflight (-) SetToBag({f})
                /\ klast' = CommandOutcome(f.op)
        /\ UNCHANGED <<kdev, kstarted, overflow_checks, base_put>>
        /\ UNCHANGED daemonVars
        /\ UNCHANGED decodeVars
        /\ UNCHANGED oneShotVars

\* What becomes of a PUT: it reaches the device and the answer reaches the
\* caller; it reaches the device and the answer does not come (in time);
\* it does not reach the device.  The code takes its Err in the last two
\* and does not look at the answer in the first.
PutOutcomes == {"answered", "answer_lost", "not_delivered"}

PutResult(put) == IF put = "answered" THEN Ok(Unit) ELSE Err("Http")

\* toggle_power: `notify(..).await?` of an operation in flight, between its
\* set and its PUT.  notify waits for `which` and for notify-send, and
\* returns the error of either.
ToggleNotify ==
    \E f \in BagToSet(kflight), notified \in BOOLEAN :
        /\ f.stage = "notify"
        /\ IF notified
           THEN /\ kflight' = FlightAfter(f, InFlight(f.op, "put"))
                /\ UNCHANGED klast
           ELSE /\ kflight' = kflight (-) SetToBag({f})
                /\ klast' = [f.op EXCEPT !.result = Err("Notify"),
                                         !.sent = None]
        /\ UNCHANGED <<kdev, kstarted, overflow_checks, base_put>>
        /\ UNCHANGED daemonVars
        /\ UNCHANGED decodeVars
        /\ UNCHANGED oneShotVars

\* The PUT of an operation in flight reaches the device, or fails to:
\* `.send()` up to its await.  The status sent is the one made of what the
\* GET gave, whatever the device has come to hold since.
SendPut ==
    \E f \in BagToSet(kflight), put \in PutOutcomes :
        /\ f.stage = "put"
        /\ kflight' =
               FlightAfter(f, InFlight([f.op EXCEPT !.result = PutResult(put)],
                                       "return"))
        /\ kdev' = IF put = "not_delivered" THEN kdev ELSE DeviceAfter(f.op)
        /\ UNCHANGED <<klast, kstarted, overflow_checks, base_put>>
        /\ UNCHANGED daemonVars
        /\ UNCHANGED decodeVars
        /\ UNCHANGED oneShotVars

\* `.send().await?` of an operation in flight returns, and the operation
\* with it: Ok(()) or the error of the PUT
PutAnswered ==
    \E f \in BagToSet(kflight) :
        /\ f.stage = "return"
        /\ kflight' = kflight (-) SetToBag({f})
        /\ klast' = f.op
        /\ UNCHANGED <<kdev, kstarted, overflow_checks, base_put>>
        /\ UNCHANGED daemonVars
        /\ UNCHANGED decodeVars
        /\ UNCHANGED oneShotVars

\* The statuses set_status is called with: the GUI sends one light, with
\* the values of its state and of its sliders, which are of the bounded
\* types.
StatusesToSet ==
    {[number_of_lights |-> 1, lights |-> <<light>>] :
        light \in [power : {"On", "Off"}, brightness : {BrightnessMin},
                   temperature : {TemperatureMin}]}

\* http.rs: set_status(base, status), called with any status: one PUT to
\* the joined URL, no GET before it.  The PUT reaches the device, or fails
\* to; set_status returns when send() does.
SetStatus ==
    \E status \in StatusesToSet, put \in PutOutcomes :
        /\ CanBegin
        /\ kstarted' = kstarted + 1
        /\ kflight' = kflight (+) SetToBag({InFlight(
               [cmd |-> "set_status", delta |-> "None", index |-> 0,
                before |-> kdev, after |-> status,
                result |-> PutResult(put),
                put_path |-> KeylightApiPath,
                sent |-> Some(status)], "return")})
        /\ kdev' = IF put = "not_delivered" THEN kdev ELSE status
        /\ UNCHANGED <<klast, overflow_checks, base_put>>
        /\ UNCHANGED daemonVars
        /\ UNCHANGED decodeVars
        /\ UNCHANGED oneShotVars

\* lib.rs: incr_brightness called by a user of the library, up to the
\* await of its GET
IncrBrightness ==
    \E reachable \in BOOLEAN, delta \in Deltas :
        /\ CanBegin
        /\ kstarted' = kstarted + 1
        /\ kflight' = FlightAfterBegin(
               IncrBrightnessRequest("incr_brightness", delta, reachable))
        /\ UNCHANGED <<kdev, klast, overflow_checks, base_put>>
        /\ UNCHANGED daemonVars
        /\ UNCHANGED decodeVars
        /\ UNCHANGED oneShotVars

\* lib.rs: incr_temperature called by a user of the library, up to the
\* await of its GET
IncrTemperature ==
    \E reachable \in BOOLEAN, delta \in Deltas :
        /\ CanBegin
        /\ kstarted' = kstarted + 1
        /\ kflight' = FlightAfterBegin(
               IncrTemperatureRequest("incr_temperature", delta, reachable))
        /\ UNCHANGED <<kdev, klast, overflow_checks, base_put>>
        /\ UNCHANGED daemonVars
        /\ UNCHANGED decodeVars
        /\ UNCHANGED oneShotVars

\* Commands::Status, up to the await of its GET
CmdStatus ==
    \E reachable \in BOOLEAN :
        /\ CanBegin
        /\ kstarted' = kstarted + 1
        /\ kflight' = FlightAfterBegin(
               Request("Status", "None", [kind |-> "none"], reachable, "None"))
        /\ UNCHANGED <<kdev, klast, overflow_checks, base_put>>
        /\ UNCHANGED daemonVars
        /\ UNCHANGED decodeVars
        /\ UNCHANGED oneShotVars

\* Commands::Toggle => toggle_power(url), up to the await of its GET
CmdToggle ==
    \E reachable \in BOOLEAN :
        /\ CanBegin
        /\ kstarted' = kstarted + 1
        /\ kflight' = FlightAfterBegin(TogglePowerRequest("Toggle", reachable))
        /\ UNCHANGED <<kdev, klast, overflow_checks, base_put>>
        /\ UNCHANGED daemonVars
        /\ UNCHANGED decodeVars
        /\ UNCHANGED oneShotVars

\* Commands::IncrBrightness => incr_brightness(url, Delta::Incr)
CmdIncrBrightness ==
    \E reachable \in BOOLEAN :
        /\ CanBegin
        /\ kstarted' = kstarted + 1
        /\ kflight' = FlightAfterBegin(
               IncrBrightnessRequest("IncrBrightness", "Incr", reachable))
        /\ UNCHANGED <<kdev, klast, overflow_checks, base_put>>
        /\ UNCHANGED daemonVars
        /\ UNCHANGED decodeVars
        /\ UNCHANGED oneShotVars

\* Commands::DecrBrightness => incr_brightness(url, Delta::Decr)
CmdDecrBrightness ==
    \E reachable \in BOOLEAN :
        /\ CanBegin
        /\ kstarted' = kstarted + 1
        /\ kflight' = FlightAfterBegin(
               IncrBrightnessRequest("DecrBrightness", "Decr", reachable))
        /\ UNCHANGED <<kdev, klast, overflow_checks, base_put>>
        /\ UNCHANGED daemonVars
        /\ UNCHANGED decodeVars
        /\ UNCHANGED oneShotVars

\* Commands::IncrTemperature => incr_temperature(url, Delta::Incr)
CmdIncrTemperature ==
    \E reachable \in BOOLEAN :
        /\ CanBegin
        /\ kstarted' = kstarted + 1
        /\ kflight' = FlightAfterBegin(
               IncrTemperatureRequest("IncrTemperature", "Incr", reachable))
        /\ UNCHANGED <<kdev, klast, overflow_checks, base_put>>
        /\ UNCHANGED daemonVars
        /\ UNCHANGED decodeVars
        /\ UNCHANGED oneShotVars

\* Commands::DecrTemperature => incr_temperature(url, Delta::Incr)
CmdDecrTemperature ==
    \E reachable \in BOOLEAN :
        /\ CanBegin
        /\ kstarted' = kstarted + 1
        /\ kflight' = FlightAfterBegin(
               IncrTemperatureRequest("DecrTemperature", "Incr", reachable))
        /\ UNCHANGED <<kdev, klast, overflow_checks, base_put>>
        /\ UNCHANGED daemonVars
        /\ UNCHANGED decodeVars
        /\ UNCHANGED oneShotVars

\* the values of --brightness and --temperature; one of them at least is given
SetArgs ==
    {a \in [brightness : {None, Some(BrightnessMax)},
            temperature : {None, Some(TemperatureMax)}] :
        a.brightness.some \/ a.temperature.some}

\* Commands::Set(SetArgs { brightness, temperature }), up to the await of
\* its GET; its PUT is reqwest's put(url)
CmdSet ==
    \E reachable \in BOOLEAN, args \in SetArgs :
        /\ CanBegin
        /\ kstarted' = kstarted + 1
        /\ kflight' = FlightAfterBegin(
               Request("Set", "None",
                       [kind |-> "set", brightness |-> args.brightness,
                        temperature |-> args.temperature],
                       reachable, BaseUrlPath))
        /\ UNCHANGED <<kdev, klast, overflow_checks, base_put>>
        /\ UNCHANGED daemonVars
        /\ UNCHANGED decodeVars
        /\ UNCHANGED oneShotVars

\* DeviceStatus::set called with any index on the status the device holds
CallSet ==
    \E index \in 0..MaxIndex :
        LET update == [kind |-> "toggle"]
            set == DeviceStatusSet(kdev, index, update, overflow_checks)
        IN  /\ CanBegin
            /\ kstarted' = kstarted + 1
            /\ klast' = [cmd |-> "set", delta |-> "None", index |-> index,
                         before |-> kdev, after |-> set.status,
                         result |-> set.result, put_path |-> "None",
                         sent |-> None]
            /\ UNCHANGED <<kdev, kflight, overflow_checks, base_put>>
            /\ UNCHANGED daemonVars
            /\ UNCHANGED decodeVars
            /\ UNCHANGED oneShotVars

NextControl ==
    \/ IncrBrightness
    \/ IncrTemperature
    \/ CmdStatus
    \/ CmdToggle
    \/ CmdIncrBrightness
    \/ CmdDecrBrightness
    \/ CmdIncrTemperature
    \/ CmdDecrTemperature
    \/ CmdSet
    \/ CallSet
    \/ SetStatus
    \/ GetAnswered
    \/ ToggleNotify
    \/ SendPut
    \/ PutAnswered

SpecControl == InitControl /\ [][NextControl]_vars

-----------------------------------------------------------------------------
(* Properties of the light control *)

Commanded == klast # NoResult

\* light 0 of the status an operation fetched, sent
LightBefore == klast.before.lights[1]
LightSent == klast.sent.v.lights[1]

InRange(light) ==
    /\ light.brightness \in BrightnessMin..BrightnessMax
    /\ light.temperature \in TemperatureMin..TemperatureMax

\* C21: DecrTemperature lowers the temperature: when t - 20 is in the valid
\* range the status sent has temperature t - 20, as IncrTemperature sends
\* t + 20.
DecrTemperatureLowers ==
    (/\ Commanded
     /\ klast.cmd = "DecrTemperature"
     /\ klast.sent.some
     /\ LightBefore.temperature - TEMPERATURE_DELTA_VALUE >= TemperatureMin)
        => LightSent.temperature = LightBefore.temperature - TEMPERATURE_DELTA_VALUE

\* the value a step of d up or down gives before the range check
RawStep(v, delta, d, max) ==
    IF delta = "Incr" THEN (IF v + d > max THEN max ELSE v + d)
    ELSE (IF v - d < 0 THEN 0 ELSE v - d)

\* the value after a step: the raw value when it is in lo..hi, else the old
Stepped(v, delta, d, max, lo, hi) ==
    LET raw == RawStep(v, delta, d, max)
    IN  IF raw \in lo..hi THEN raw ELSE v

\* C22: UnsignedInt::new(i) succeeds exactly for S <= i <= E; whatever
\* operations have run, up or down, one after another or in between each
\* other's awaits, the brightness the device holds and the brightness sent
\* are in 0..100 and the temperatures in 143..344, and a step of
\* incr_brightness or incr_temperature whose saturating result is outside
\* the range leaves the value as it was.
StepsStayInRange ==
    /\ \A k \in 1..Len(kdev.lights) : InRange(kdev.lights[k])
    /\ \A f \in BagToSet(kflight) :
          f.stage # "get" =>
              \A k \in 1..Len(f.op.sent.v.lights) :
                  InRange(f.op.sent.v.lights[k])
    /\ (Commanded /\ klast.sent.some) =>
          /\ \A k \in 1..Len(klast.sent.v.lights) : InRange(klast.sent.v.lights[k])
          /\ Len(klast.before.lights) >= 1 =>
                /\ \A i \in {RawStep(LightBefore.brightness, d, BRIGHTNESS_DELTA_VALUE, U8Max) :
                              d \in Deltas} :
                      (UnsignedIntNew(i, BrightnessMin, BrightnessMax).kind = "Ok")
                          <=> (BrightnessMin <= i /\ i <= BrightnessMax)
                /\ \A i \in {RawStep(LightBefore.temperature, d, TEMPERATURE_DELTA_VALUE, U16Max) :
                              d \in Deltas} :
                      (UnsignedIntNew(i, TemperatureMin, TemperatureMax).kind = "Ok")
                          <=> (TemperatureMin <= i /\ i <= TemperatureMax)
          /\ klast.cmd \in {"incr_brightness", "IncrBrightness", "DecrBrightness"} =>
                LightSent.brightness =
                    Stepped(LightBefore.brightness, klast.delta,
                            BRIGHTNESS_DELTA_VALUE, U8Max, BrightnessMin, BrightnessMax)
          /\ klast.cmd \in {"incr_temperature", "IncrTemperature", "DecrTemperature"} =>
                LightSent.temperature =
                    Stepped(LightBefore.temperature, klast.delta,
                            TEMPERATURE_DELTA_VALUE, U16Max, TemperatureMin, TemperatureMax)

\* a step down from 144 would give 124: the temperature sent is still 144
StepsStayInRangeWitness ==
    /\ Commanded
    /\ klast.cmd = "incr_temperature"
    /\ klast.delta = "Decr"
    /\ klast.sent.some
    /\ LightBefore.temperature = 144
    /\ LightSent.temperature = 144

\* C25: DeviceStatus::set(index, update) never panics: for every status,
\* with number_of_lights = 0 or different from the length of lights, and
\* every index, it returns the Invalid index error and leaves the status as
\* it was, or applies update to the light at position index alone.
SetNeverAborts ==
    (Commanded /\ klast.cmd = "set") =>
        \/ /\ klast.result = Err("Invalid index")
           /\ klast.after = klast.before
        \/ /\ klast.result = Ok(Unit)
           /\ klast.index < Len(klast.before.lights)
           /\ klast.after =
                 [klast.before EXCEPT !.lights[klast.index + 1] = ToggleLight(@)]

====
